---------------------------- MODULE Spec2Model ----------------------------
(***************************************************************************)
(* A model of EASM_API.py, the EASM Profile Manager dashboard.             *)
(*                                                                         *)
(* Python strings that the program builds or trims (user names, tokens,    *)
(* response bodies) are sequences of one-character strings.  A JSON value  *)
(* read from a profile record is a record [kind, text]: kind "str" for a   *)
(* JSON string and kind "null" for JSON null (Python None).                *)
(*                                                                         *)
(* The remote gateway is outside the program: the response to every HTTP   *)
(* call is an input of the action that issues the call.                    *)
(*                                                                         *)
(* One action is one run of the Streamlit script main(): the widget event  *)
(* that starts the run, the whole of the handler that event reaches, and   *)
(* the rendering of the page.  The search box is left empty throughout.    *)
(* st.session_state.update_counter is written and never read; it is left   *)
(* out.  The state of a widget is kept from one run to the next exactly    *)
(* when the widget was drawn in the earlier run.                           *)
(***************************************************************************)
EXTENDS Integers, Sequences, FiniteSets, TLC

VARIABLES
    tokens,             \* st.session_state.tokens: <<[username, token]>> in insertion order
    authLog,            \* the get_auth_token calls of the last Connect run
    connectRun,         \* the inputs and the st.error of the last Connect run
    all_profiles,       \* the table built by the last run of the main content
    fetchLog,           \* the get_profile_status calls of that run
    rendered,           \* number of row checkboxes drawn by that run
    checked,            \* rows (1-based) whose checkbox select_<idx> holds True
    select_all,         \* the "Select All" checkbox
    pc,                 \* where the script is: "stopped", "error", "sleep", "rerun"
    selected_profiles,  \* the selection of the delete batch of the last run
    deleteLog,          \* the delete_profile calls of that batch
    delete_success,     \* its delete_success list
    delete_failed,      \* its delete_failed list
    expCall             \* the last direct call of generate_usernames and its result

vars == <<tokens, authLog, connectRun, all_profiles, fetchLog, rendered, checked,
          select_all, pc, selected_profiles, deleteLog, delete_success,
          delete_failed, expCall>>

-----------------------------------------------------------------------------
(* Bounds and inputs *)

\* largest value of the Start/End number inputs in a Connect
MaxEnd == 1

\* largest offset given to generate_usernames when it is checked on its own
MaxOffset == 11

HTTP_CREATED == 201

Bases == {<<"e">>}

ExpandBases == {<<"e">>, <<"e", "7">>}

Whitespace == {" ", "\n"}

-----------------------------------------------------------------------------
(* Strings *)

DigitChars == <<"0", "1", "2", "3", "4", "5", "6", "7", "8", "9">>

\* str(i) for i >= 0
RECURSIVE FormatInt(_)
FormatInt(i) ==
    IF i < 10 THEN <<DigitChars[i + 1]>>
    ELSE FormatInt(i \div 10) \o <<DigitChars[(i % 10) + 1]>>

RECURSIVE LStrip(_)
LStrip(s) ==
    IF s # <<>> /\ Head(s) \in Whitespace THEN LStrip(Tail(s)) ELSE s

RECURSIVE RStrip(_)
RStrip(s) ==
    IF s # <<>> /\ s[Len(s)] \in Whitespace
    THEN RStrip(SubSeq(s, 1, Len(s) - 1))
    ELSE s

\* str.strip()
Strip(s) == RStrip(LStrip(s))

-----------------------------------------------------------------------------
(* generate_usernames *)

RECURSIVE UsernamesLoop(_, _, _, _)
UsernamesLoop(base_username, i, end, usernames) ==
    IF i > end THEN usernames
    ELSE UsernamesLoop(base_username, i + 1, end,
             Append(usernames,
                    IF i = 0 THEN base_username
                    ELSE base_username \o FormatInt(i)))

\* a faulty variant: range(start, end) instead of range(start, end + 1)
generate_usernames_short(base_username, start, end) ==
    UsernamesLoop(base_username, start, end - 1, <<>>)

generate_usernames(base_username, start, end) ==
    UsernamesLoop(base_username, start, end, <<>>)

\* A direct call: the function returns a list for every argument, it raises nothing.
Expand(bases, offsets) ==
    \E b \in bases, s \in offsets, e \in offsets :
        /\ expCall' = [base |-> b, start |-> s, end |-> e, called |-> TRUE,
                       raised |-> FALSE, ret |-> generate_usernames(b, s, e)]
        /\ UNCHANGED <<tokens, authLog, connectRun, all_profiles, fetchLog, rendered,
                       checked, select_all, pc, selected_profiles, deleteLog,
                       delete_success, delete_failed>>

-----------------------------------------------------------------------------
(* get_auth_token *)

\* The gateway's answers to POST /auth for one user.
TokenOf(username) == <<"t">> \o username

AuthFew(username) ==
    { [kind |-> "http", status |-> HTTP_CREATED,
       body |-> <<" ">> \o TokenOf(username) \o <<"\n">>],
      [kind |-> "http", status |-> 500, body |-> <<"x">>] }

AuthAll(username) ==
    AuthFew(username) \cup
    { [kind |-> "http", status |-> HTTP_CREATED, body |-> <<>>],
      [kind |-> "http", status |-> HTTP_CREATED, body |-> <<" ", "\n">>],
      [kind |-> "http", status |-> 200, body |-> TokenOf(username)],
      [kind |-> "transport", status |-> 0, body |-> <<>>] }

\* a faulty variant: the body is taken as the token without strip()
get_auth_token_raw(response) ==
    IF response.kind = "transport"
    THEN [none |-> TRUE, token |-> <<>>, error |-> "RequestException"]
    ELSE IF response.status = HTTP_CREATED
         THEN IF response.body # <<>>
              THEN [none |-> FALSE, token |-> response.body, error |-> ""]
              ELSE [none |-> TRUE, token |-> <<>>, error |-> "Empty token received"]
         ELSE [none |-> TRUE, token |-> <<>>, error |-> "HTTP"]

\* (token, error) as the record [none, token, error]; none = TRUE is token None
get_auth_token(response) ==
    IF response.kind = "transport"
    THEN [none |-> TRUE, token |-> <<>>, error |-> "RequestException"]
    ELSE IF response.status = HTTP_CREATED
         THEN LET token == Strip(response.body) IN
              IF token # <<>>
              THEN [none |-> FALSE, token |-> token, error |-> ""]
              ELSE [none |-> TRUE, token |-> <<>>, error |-> "Empty token received"]
         ELSE [none |-> TRUE, token |-> <<>>, error |-> "HTTP"]

-----------------------------------------------------------------------------
(* Python dict, kept as the sequence of its items in insertion order *)

Keys(d) == {d[i].username : i \in 1..Len(d)}

\* d[username], for a key of d
Lookup(d, username) ==
    d[CHOOSE i \in 1..Len(d) : d[i].username = username].token

\* d[username] = token
DictSet(d, username, token) ==
    IF username \in Keys(d)
    THEN [i \in 1..Len(d) |->
             IF d[i].username = username
             THEN [username |-> username, token |-> token] ELSE d[i]]
    ELSE Append(d, [username |-> username, token |-> token])

-----------------------------------------------------------------------------
(* The Connect button *)

NoConnect ==
    [clicked |-> FALSE, base |-> <<>>, start |-> 0, end |-> 0, error |-> ""]

\* a faulty variant: the range is not validated
RangeInvalid_never(start_num, end_num) == FALSE

RangeInvalid(start_num, end_num) == end_num < start_num

\* for username in usernames: the loop of the Connect handler
RECURSIVE AuthLoop(_, _, _, _, _)
AuthLoop(usernames, responses, i, toks, log) ==
    IF i > Len(usernames) THEN [tokens |-> toks, log |-> log]
    ELSE LET username == usernames[i]
             r == get_auth_token(responses[i])
             entry == [username |-> username, response |-> responses[i]]
         IN  IF ~r.none /\ r.token # <<>>
             THEN AuthLoop(usernames, responses, i + 1,
                           DictSet(toks, username, r.token), Append(log, entry))
             ELSE AuthLoop(usernames, responses, i + 1, toks, Append(log, entry))

\* A run that does not reach the main content draws no table and no checkbox.
NoTable ==
    /\ all_profiles' = <<>>
    /\ fetchLog' = <<>>
    /\ rendered' = 0
    /\ checked' = {}
    /\ select_all' = FALSE

NoBatch ==
    /\ selected_profiles' = <<>>
    /\ deleteLog' = <<>>
    /\ delete_success' = <<>>
    /\ delete_failed' = <<>>

\* st.error and st.stop: the run ends before anything else is done
ConnectStop(b, s, e, message) ==
    /\ connectRun' = [clicked |-> TRUE, base |-> b, start |-> s, end |-> e,
                      error |-> message]
    /\ authLog' = <<>>
    /\ pc' = "stopped"
    /\ NoTable
    /\ NoBatch
    /\ UNCHANGED <<tokens, expCall>>

\* every: the gateway may give any of its answers, not only the two usual ones
AuthAnswers(every, username) ==
    IF every THEN AuthAll(username) ELSE AuthFew(username)

Connect(every) ==
    \E b \in Bases, s \in 0..MaxEnd, e \in 0..MaxEnd, filled \in BOOLEAN :
        IF ~filled
        THEN ConnectStop(b, s, e, "Please fill in all required fields.")
        ELSE IF RangeInvalid(s, e)
        THEN ConnectStop(b, s, e,
                 "End number must be greater than or equal to start number.")
        ELSE LET usernames == generate_usernames(b, s, e)
                 n == Len(usernames)
                 all == UNION {AuthAnswers(every, usernames[i]) : i \in 1..n}
             IN  \E responses \in [1..n -> all] :
                     /\ \A i \in 1..n : responses[i] \in AuthAnswers(every, usernames[i])
                     /\ LET out == AuthLoop(usernames, responses, 1, <<>>, <<>>)
                        IN  /\ tokens' = out.tokens
                            /\ authLog' = out.log
                     /\ connectRun' = [clicked |-> TRUE, base |-> b, start |-> s,
                                       end |-> e, error |-> ""]
                     /\ pc' = "rerun"
                     /\ NoTable
                     /\ NoBatch
                     /\ UNCHANGED expCall

-----------------------------------------------------------------------------
(* JSON values and the gateway's profile records *)

Str(text) == [kind |-> "str", text |-> text]

Null == [kind |-> "null", text |-> ""]

\* dict.get(key, default): the default is used only when the key is absent
Get(d, key, default) == IF key \in DOMAIN d THEN d[key] ELSE default

\* a complete record
ProfileP ==
    [profileName |-> Str("p"), status |-> Str("completed"),
     lastConfiguredOn |-> Str("d1"), nextScheduledSyncOn |-> Str("d2"),
     lastDiscoveryCompletedOn |-> Str("d3")]

\* a record without status and without lastConfiguredOn
ProfileQ ==
    [profileName |-> Str("q"), nextScheduledSyncOn |-> Str("d4"),
     lastDiscoveryCompletedOn |-> Str("d5")]

\* a record whose status is JSON null
ProfileR == [profileName |-> Str("r"), status |-> Null]

\* The gateway's answers to GET /easm/v2/profile/status.
FetchOf(lists) ==
    {[kind |-> "http", status |-> 200, body |-> b] : b \in lists}
    \cup {[kind |-> "http", status |-> 500, body |-> <<>>]}

FetchFew == FetchOf({<<ProfileP>>, <<ProfileQ, ProfileP>>, <<ProfileR>>})

FetchAll ==
    FetchOf({<<>>, <<ProfileP>>, <<ProfileQ>>, <<ProfileP, ProfileQ>>,
             <<ProfileQ, ProfileP>>, <<ProfileR>>, <<ProfileP, ProfileR>>})
    \cup {[kind |-> "transport", status |-> 0, body |-> <<>>]}

\* The gateway's answers to DELETE /easm/v2/profile.  A transport error takes
\* the same except branch of delete_profile as the 404.
DeleteAnswers ==
    {[kind |-> "http", status |-> 204], [kind |-> "http", status |-> 404]}

\* response.raise_for_status() raises for a 4xx or 5xx status
RaisesForStatus(response) == response.status >= 400 /\ response.status < 600

\* (profiles, error) as the record [none, profiles, error]
get_profile_status(response) ==
    IF response.kind = "transport" \/ RaisesForStatus(response)
    THEN [none |-> TRUE, profiles |-> <<>>, error |-> "RequestException"]
    ELSE [none |-> FALSE, profiles |-> response.body, error |-> ""]

\* (success, error) as the record [success, error]
delete_profile(response) ==
    IF response.kind = "transport" \/ RaisesForStatus(response)
    THEN [success |-> FALSE, error |-> "RequestException"]
    ELSE [success |-> TRUE, error |-> ""]

-----------------------------------------------------------------------------
(* The aggregation pass *)

\* a faulty variant: the row of a failed fetch carries the default status
SentinelRow_unknown(username) ==
    [username |-> username, profileName |-> Str("N/A"),
     status |-> Str("Unknown"),
     lastConfiguredOn |-> Str("N/A"), nextScheduledSyncOn |-> Str("N/A"),
     lastDiscoveryCompletedOn |-> Str("N/A")]

SentinelRow(username) ==
    [username |-> username, profileName |-> Str("N/A"),
     status |-> Str("Status Retrieval Failed"),
     lastConfiguredOn |-> Str("N/A"), nextScheduledSyncOn |-> Str("N/A"),
     lastDiscoveryCompletedOn |-> Str("N/A")]

ProfileRow(username, profile) ==
    [username |-> username,
     profileName |-> Get(profile, "profileName", Str("N/A")),
     status |-> Get(profile, "status", Str("Unknown")),
     lastConfiguredOn |-> Get(profile, "lastConfiguredOn", Str("N/A")),
     nextScheduledSyncOn |-> Get(profile, "nextScheduledSyncOn", Str("N/A")),
     lastDiscoveryCompletedOn |->
         Get(profile, "lastDiscoveryCompletedOn", Str("N/A"))]

\* for profile in profiles: all_profiles.append(...)
ProfileRows(username, profiles) ==
    [j \in 1..Len(profiles) |-> ProfileRow(username, profiles[j])]

\* a faulty variant: a fetch that fails adds no row
RowsOf_drop(username, r) ==
    IF ~r.none /\ Len(r.profiles) > 0
    THEN ProfileRows(username, r.profiles)
    ELSE <<>>

\* the rows one identity adds: "if profiles:" is false for None and for []
RowsOf(username, r) ==
    IF ~r.none /\ Len(r.profiles) > 0
    THEN ProfileRows(username, r.profiles)
    ELSE <<SentinelRow(username)>>

\* a faulty variant: with several identities the first one is not fetched
RECURSIVE AggregateLoop_skip(_, _, _, _, _)
AggregateLoop_skip(toks, responses, i, rows, log) ==
    IF i > Len(toks) THEN [rows |-> rows, log |-> log]
    ELSE IF i = 1 /\ Len(toks) > 1
    THEN AggregateLoop_skip(toks, responses, 2, rows, log)
    ELSE LET username == toks[i].username
             r == get_profile_status(responses[i])
         IN  AggregateLoop_skip(toks, responses, i + 1,
                 rows \o RowsOf(username, r),
                 Append(log, [username |-> username, token |-> toks[i].token,
                              response |-> responses[i]]))

\* for username, token in st.session_state.tokens.items()
RECURSIVE AggregateLoop(_, _, _, _, _)
AggregateLoop(toks, responses, i, rows, log) ==
    IF i > Len(toks) THEN [rows |-> rows, log |-> log]
    ELSE LET username == toks[i].username
             r == get_profile_status(responses[i])
         IN  AggregateLoop(toks, responses, i + 1,
                 rows \o RowsOf(username, r),
                 Append(log, [username |-> username, token |-> toks[i].token,
                              response |-> responses[i]]))

-----------------------------------------------------------------------------
(* Rendering the table *)

\* row["status"].lower() raises when the status is not a str
RenderFails(row) == row.status.kind # "str"

\* the first row whose rendering raises, 0 when none does
FirstFailure(table) ==
    IF \E i \in 1..Len(table) : RenderFails(table[i])
    THEN CHOOSE i \in 1..Len(table) :
             /\ RenderFails(table[i])
             /\ \A j \in 1..(i - 1) : ~RenderFails(table[j])
    ELSE 0

\* rows whose checkbox is drawn: the checkbox of a row comes before its status
Drawn(table) ==
    IF FirstFailure(table) = 0 THEN Len(table) ELSE FirstFailure(table)

\* st.checkbox("", key=f"select_{idx}", value=select_all): a checkbox drawn in
\* the run before keeps its state, a new one starts from select_all
CheckboxValues(n, oldRendered, chk, sa) ==
    {i \in 1..n : IF i <= oldRendered THEN i \in chk ELSE sa}

\* for idx, row in df.iterrows(): if selected: selected_profiles.append(...)
RECURSIVE SelectedLoop(_, _, _, _)
SelectedLoop(table, chk, i, selected) ==
    IF i > Len(table) THEN selected
    ELSE SelectedLoop(table, chk, i + 1,
             IF i \in chk
             THEN Append(selected, [username |-> table[i].username,
                                    profileName |-> table[i].profileName])
             ELSE selected)

-----------------------------------------------------------------------------
(* The delete batch *)

\* a faulty variant: the batch stops at the first failed call
RECURSIVE DeleteLoop_halt(_, _, _, _, _, _, _)
DeleteLoop_halt(toks, selected, responses, i, succ, failed, log) ==
    IF i > Len(selected) \/ failed # <<>>
    THEN [succeeded |-> succ, failed |-> failed, log |-> log]
    ELSE LET profile == selected[i]
             r == delete_profile(responses[i])
             call == [auth_token |-> Lookup(toks, profile.username),
                      profile_name |-> profile.profileName,
                      response |-> responses[i]]
         IN  IF r.success
             THEN DeleteLoop_halt(toks, selected, responses, i + 1,
                      Append(succ, profile.profileName), failed, Append(log, call))
             ELSE DeleteLoop_halt(toks, selected, responses, i + 1, succ,
                      Append(failed, <<profile.profileName, r.error>>),
                      Append(log, call))

\* for i, profile in enumerate(selected_profiles)
RECURSIVE DeleteLoop(_, _, _, _, _, _, _)
DeleteLoop(toks, selected, responses, i, succ, failed, log) ==
    IF i > Len(selected)
    THEN [succeeded |-> succ, failed |-> failed, log |-> log]
    ELSE LET profile == selected[i]
             r == delete_profile(responses[i])
             call == [auth_token |-> Lookup(toks, profile.username),
                      profile_name |-> profile.profileName,
                      response |-> responses[i]]
         IN  IF r.success
             THEN DeleteLoop(toks, selected, responses, i + 1,
                      Append(succ, profile.profileName), failed, Append(log, call))
             ELSE DeleteLoop(toks, selected, responses, i + 1, succ,
                      Append(failed, <<profile.profileName, r.error>>),
                      Append(log, call))

-----------------------------------------------------------------------------
(* One run of the main content (lines 138-250) *)

PairsAt(table, chk) ==
    {[username |-> table[i].username, profileName |-> table[i].profileName] :
         i \in chk \cap (1..Len(table))}

\* chk, sa, oldRendered: the widget state the run starts from.
\* clickLabel: the number in the label of the Delete button that was clicked,
\* 0 when none was; st.button(label) is True only for a button of that label.
MainContent(Fetch, chk, sa, oldRendered, clickLabel) ==
    /\ authLog' = <<>>
    /\ connectRun' = NoConnect
    /\ UNCHANGED <<tokens, expCall>>
    /\ IF tokens = <<>>
       THEN /\ NoTable
            /\ NoBatch
            /\ pc' = "stopped"
       ELSE \E responses \in [1..Len(tokens) -> Fetch] :
            LET agg == AggregateLoop(tokens, responses, 1, <<>>, <<>>)
                table == agg.rows
                drawn == Drawn(table)
                values == CheckboxValues(drawn, oldRendered, chk, sa)
                selected == SelectedLoop(table, values, 1, <<>>)
                pressed == selected # <<>> /\ clickLabel = Len(selected)
            IN  /\ all_profiles' = table
                /\ fetchLog' = agg.log
                /\ rendered' = drawn
                /\ checked' = values
                /\ select_all' = sa
                /\ IF FirstFailure(table) # 0
                   THEN /\ pc' = "error"
                        /\ NoBatch
                   ELSE IF pressed
                   THEN \E answers \in [1..Len(selected) -> DeleteAnswers] :
                        LET out == DeleteLoop(tokens, selected, answers, 1,
                                              <<>>, <<>>, <<>>)
                        IN  /\ selected_profiles' = selected
                            /\ deleteLog' = out.log
                            /\ delete_success' = out.succeeded
                            /\ delete_failed' = out.failed
                            /\ pc' = "rerun"
                   ELSE /\ pc' = "sleep"
                        /\ NoBatch

\* st.rerun(): the script starts again with no widget event
Rerun(Fetch) ==
    /\ pc = "rerun"
    /\ MainContent(Fetch, checked, select_all, rendered, 0)

\* time.sleep(30) ends: st.rerun()
AutoRefresh ==
    /\ pc = "sleep"
    /\ pc' = "rerun"
    /\ UNCHANGED <<tokens, authLog, connectRun, all_profiles, fetchLog, rendered,
                   checked, select_all, selected_profiles, deleteLog,
                   delete_success, delete_failed, expCall>>

\* the operator flips the checkbox of a row that is on the page
Tick(Fetch, i) ==
    /\ pc \in {"sleep", "error"}
    /\ i \in 1..rendered
    /\ MainContent(Fetch, (checked \ {i}) \cup ({i} \ checked), select_all, rendered, 0)

\* the operator flips "Select All": every row checkbox is drawn anew with that value
ToggleSelectAll(Fetch) ==
    /\ pc \in {"sleep", "error"}
    /\ MainContent(Fetch, {}, ~select_all, 0, 0)

\* the operator clicks "Delete Selected (n profiles)"
ClickDelete(Fetch) ==
    /\ pc = "sleep"
    /\ checked # {}
    /\ MainContent(Fetch, checked, select_all, rendered, Cardinality(checked))

-----------------------------------------------------------------------------
(* Specifications *)

NoCall ==
    [base |-> <<>>, start |-> 0, end |-> 0, called |-> FALSE, raised |-> FALSE,
     ret |-> <<>>]

Init ==
    /\ tokens = <<>>
    /\ authLog = <<>>
    /\ connectRun = NoConnect
    /\ all_profiles = <<>>
    /\ fetchLog = <<>>
    /\ rendered = 0
    /\ checked = {}
    /\ select_all = FALSE
    /\ pc = "stopped"
    /\ selected_profiles = <<>>
    /\ deleteLog = <<>>
    /\ delete_success = <<>>
    /\ delete_failed = <<>>
    /\ expCall = NoCall

ConnectFew == Connect(FALSE)

ConnectAll == Connect(TRUE)

TickSome(Fetch) == \E i \in 1..rendered : Tick(Fetch, i)

ExpandSmall == Expand(Bases, 0..MaxEnd)

ExpandLarge == Expand(ExpandBases, 0..MaxOffset)

Next ==
    \/ ConnectFew
    \/ Rerun(FetchFew)
    \/ AutoRefresh
    \/ TickSome(FetchFew)
    \/ ToggleSelectAll(FetchFew)
    \/ ClickDelete(FetchFew)

\* the dashboard
Spec == Init /\ [][Next]_vars

NextAggregate ==
    \/ ConnectFew
    \/ Rerun(FetchAll)
    \/ AutoRefresh

\* the aggregation pass with every answer of the gateway
SpecAggregate == Init /\ [][NextAggregate]_vars

NextConnect == ConnectAll \/ ExpandSmall

\* the Connect handler with every answer of the gateway, and generate_usernames
SpecConnect == Init /\ [][NextConnect]_vars

NextExpand == ExpandLarge

\* generate_usernames on its own
SpecExpand == Init /\ [][NextExpand]_vars

-----------------------------------------------------------------------------
(* Vocabulary of the properties *)

\* the rows of a table that one identity owns, in table order
RowsOwnedBy(table, username) ==
    SelectSeq(table, LAMBDA row : row.username = username)

\* a listProfiles call fails: a transport error or a status outside 2xx
FetchFailed(response) ==
    response.kind = "transport" \/ response.status \notin 200..299

IsSentinel(row) ==
    /\ row.profileName = Str("N/A")
    /\ row.status = Str("Status Retrieval Failed")
    /\ row.lastConfiguredOn = Str("N/A")
    /\ row.nextScheduledSyncOn = Str("N/A")
    /\ row.lastDiscoveryCompletedOn = Str("N/A")

\* the session map the last pass iterated over, read back from its calls
PassTokens ==
    [i \in 1..Len(fetchLog) |->
        [username |-> fetchLog[i].username, token |-> fetchLog[i].token]]

PassAnswers == [i \in 1..Len(fetchLog) |-> fetchLog[i].response]

HealthyAnswer == [kind |-> "http", status |-> 200, body |-> <<ProfileP>>]

\* the table of the same pass had call k succeeded
TableWithout(k) ==
    AggregateLoop(PassTokens, [PassAnswers EXCEPT ![k] = HealthyAnswer],
                  1, <<>>, <<>>).rows

-----------------------------------------------------------------------------
(* C1: in an aggregation pass, every identity whose listProfiles call fails
   owns exactly one row, the sentinel row (profileName "N/A", status "Status
   Retrieval Failed", the three timestamps "N/A"), and the rows of every
   other identity are those the pass would have emitted had that call not
   failed. *)
C1_FailureIsOneSentinelRow ==
    \A k \in 1..Len(fetchLog) :
        FetchFailed(fetchLog[k].response) =>
            LET mine == RowsOwnedBy(all_profiles, fetchLog[k].username)
            IN  /\ Len(mine) = 1
                /\ IsSentinel(mine[1])
                /\ \A j \in 1..Len(fetchLog) :
                       j # k =>
                           RowsOwnedBy(all_profiles, fetchLog[j].username)
                               = RowsOwnedBy(TableWithout(k), fetchLog[j].username)

\* two identities, one fetch failed, the other returned two profiles
C1_Witness ==
    /\ Len(fetchLog) >= 2
    /\ \E k \in 1..Len(fetchLog) : FetchFailed(fetchLog[k].response)
    /\ \E j \in 1..Len(fetchLog) :
           /\ ~FetchFailed(fetchLog[j].response)
           /\ Len(RowsOwnedBy(all_profiles, fetchLog[j].username)) = 2

-----------------------------------------------------------------------------
(* C2: in an aggregation pass, every identity whose listProfiles call
   succeeds with n raw profiles, for every n >= 0, owns exactly n rows, one per
   profile in the returned order, each copying the fields the profile has
   and holding "N/A" ("Unknown" for the status) for each field it lacks; no
   sentinel row is emitted for that identity. *)
FieldOf(profile, key, default) ==
    IF \E name \in DOMAIN profile : name = key THEN profile[key] ELSE default

C2_SuccessIsOneRowPerProfile ==
    \A k \in 1..Len(fetchLog) :
        ~FetchFailed(fetchLog[k].response) =>
            LET mine == RowsOwnedBy(all_profiles, fetchLog[k].username)
                body == fetchLog[k].response.body
            IN  /\ Len(mine) = Len(body)
                /\ \A j \in 1..Len(mine) :
                    /\ mine[j].profileName
                           = FieldOf(body[j], "profileName", Str("N/A"))
                    /\ mine[j].status = FieldOf(body[j], "status", Str("Unknown"))
                    /\ mine[j].lastConfiguredOn
                           = FieldOf(body[j], "lastConfiguredOn", Str("N/A"))
                    /\ mine[j].nextScheduledSyncOn
                           = FieldOf(body[j], "nextScheduledSyncOn", Str("N/A"))
                    /\ mine[j].lastDiscoveryCompletedOn
                           = FieldOf(body[j], "lastDiscoveryCompletedOn", Str("N/A"))

-----------------------------------------------------------------------------
(* C3: after every aggregation pass, whatever the mix of successes and
   failures, every identity of the session map owns at least one row of the
   table and every row of the table is owned by an identity of the session
   map. *)
C3_EveryIdentityHasARow ==
    fetchLog # <<>> =>
        /\ \A i \in 1..Len(tokens) :
               \E j \in 1..Len(all_profiles) :
                   all_profiles[j].username = tokens[i].username
        /\ \A j \in 1..Len(all_profiles) :
               \E i \in 1..Len(tokens) :
                   tokens[i].username = all_profiles[j].username

\* a pass over two identities in which every fetch failed
C3_Witness ==
    /\ Len(tokens) >= 2
    /\ Len(fetchLog) = Len(tokens)
    /\ \A k \in 1..Len(fetchLog) : FetchFailed(fetchLog[k].response)
    /\ Len(all_profiles) = Len(tokens)

-----------------------------------------------------------------------------
(* C8: in every aggregated table the status of every row is a text value
   (the text of the remote record, "Unknown" or "Status Retrieval Failed"),
   never null, whatever the records of a successful response hold, and
   rendering the status of a row never fails. *)
C8_StatusIsAlwaysText ==
    /\ \A j \in 1..Len(all_profiles) : all_profiles[j].status.kind = "str"
    /\ pc # "error"

-----------------------------------------------------------------------------
(* C4: a bulk delete over a selection of k profiles issues exactly one
   deleteProfile call per selected profile, in selection order, each with the
   token of the owning identity, and goes on after a failed call; at the end
   every selected profile is in exactly one of succeeded (its call succeeded)
   and failed (its call failed, with the error message), so that
   len(succeeded) + len(failed) = k. *)
DeleteFailed(response) ==
    response.kind = "transport" \/ response.status \notin 200..299

-----------------------------------------------------------------------------
(* C9: after a bulk delete batch finishes, with any mix of successful and
   failed deletions, the next table shown is built by a fresh aggregation
   pass that calls listProfiles once for every identity of the session map;
   the delete itself removes no row from the table and the batch leaves the
   session map unchanged. *)
BatchDone == selected_profiles # <<>>

FreshPass ==
    /\ Len(fetchLog) = Len(tokens)
    /\ \A i \in 1..Len(tokens) :
           /\ fetchLog[i].username = tokens[i].username
           /\ fetchLog[i].token = tokens[i].token
    /\ \A i \in 1..Len(tokens) :
           \E j \in 1..Len(all_profiles) :
               all_profiles[j].username = tokens[i].username

C9_Step ==
    /\ BatchDone' =>
           /\ tokens' = tokens
           /\ pc' = "rerun"
           /\ FreshPass'
           /\ \A i \in 1..Len(selected_profiles') :
                  \E j \in 1..Len(all_profiles') :
                      /\ all_profiles'[j].username = selected_profiles'[i].username
                      /\ all_profiles'[j].profileName
                             = selected_profiles'[i].profileName
    /\ (BatchDone /\ ~connectRun'.clicked) =>
           /\ tokens' = tokens
           /\ FreshPass'
           /\ all_profiles' = AggregateLoop(tokens, [i \in 1..Len(fetchLog') |->
                                  fetchLog'[i].response], 1, <<>>, <<>>).rows

C9_RefetchAfterBatch == [][C9_Step]_vars

\* a batch over two identities finished with one deletion succeeded and one failed
C9_Witness ==
    /\ BatchDone
    /\ delete_success # <<>>
    /\ delete_failed # <<>>
    /\ Len(tokens) >= 2

-----------------------------------------------------------------------------
(* C10: every profile a bulk delete issues a call for is a pair
   (ownerIdentity, profileName) the operator ticked in the table as it was
   last shown: a re-aggregation that changes which profile sits at a row
   position never puts a pair the operator did not choose into the
   selection. *)
C10_Step ==
    BatchDone' =>
        \A i \in 1..Len(selected_profiles') :
            selected_profiles'[i] \in PairsAt(all_profiles, checked)

C10_DeletesOnlyTickedPairs == [][C10_Step]_vars

-----------------------------------------------------------------------------
(* C5: after a Connect completes, the session map holds exactly the
   identities of the expanded list whose one authentication call returned
   status 201 with a body that is not empty after trimming whitespace, each
   mapped to that trimmed body; every expanded identity is authenticated
   exactly once and an identity whose authentication fails is absent from
   the map, whatever happens to the others. *)
IsBlank(body) == \A i \in 1..Len(body) : body[i] \in Whitespace

AuthSucceeded(response) ==
    /\ response.kind = "http"
    /\ response.status = 201
    /\ ~IsBlank(response.body)

\* token is body without the whitespace around it
IsTrimOf(token, body) ==
    /\ token # <<>>
    /\ token[1] \notin Whitespace
    /\ token[Len(token)] \notin Whitespace
    /\ \E i \in 1..Len(body) :
           /\ IsBlank(SubSeq(body, 1, i - 1))
           /\ SubSeq(body, i, i + Len(token) - 1) = token
           /\ IsBlank(SubSeq(body, i + Len(token), Len(body)))

ConnectCompleted == connectRun.clicked /\ connectRun.error = ""

C5_SessionMapIsTheAuthenticated ==
    ConnectCompleted =>
        LET expanded ==
                generate_usernames(connectRun.base, connectRun.start, connectRun.end)
        IN  /\ Len(authLog) = Len(expanded)
            /\ \A k \in 1..Len(expanded) : authLog[k].username = expanded[k]
            /\ \A k \in 1..Len(authLog) :
                   IF AuthSucceeded(authLog[k].response)
                   THEN \E j \in 1..Len(tokens) :
                            /\ tokens[j].username = authLog[k].username
                            /\ IsTrimOf(tokens[j].token, authLog[k].response.body)
                   ELSE \A j \in 1..Len(tokens) :
                            tokens[j].username # authLog[k].username
            /\ \A j \in 1..Len(tokens) :
                   \E k \in 1..Len(authLog) :
                       authLog[k].username = tokens[j].username
            /\ \A i, j \in 1..Len(tokens) :
                   tokens[i].username = tokens[j].username => i = j

\* two identities: one got a token out of a padded body, the other a blank body
C5_Witness ==
    /\ ConnectCompleted
    /\ Len(authLog) = 2
    /\ Len(tokens) = 1
    /\ \E k \in 1..2 :
           /\ AuthSucceeded(authLog[k].response)
           /\ Len(authLog[k].response.body) > Len(tokens[1].token)
    /\ \E k \in 1..2 :
           /\ authLog[k].response.kind = "http"
           /\ authLog[k].response.status = 201
           /\ IsBlank(authLog[k].response.body)

-----------------------------------------------------------------------------
(* C6: for every base name and all integers 0 <= start <= end,
   expand(base, start, end) returns exactly end-start+1 identities in
   ascending offset order; the identity of offset 0 is the bare base name and
   the identity of an offset i > 0 is the base name followed by the decimal
   digits of i. *)
DigitValue(c) == CHOOSE d \in 0..9 : DigitChars[d + 1] = c

IsDigit(c) == \E d \in 0..9 : DigitChars[d + 1] = c

RECURSIVE DecimalValue(_)
DecimalValue(digits) ==
    IF digits = <<>> THEN 0
    ELSE 10 * DecimalValue(SubSeq(digits, 1, Len(digits) - 1))
             + DigitValue(digits[Len(digits)])

\* the decimal numeral of i, with no sign and no leading zero
IsDecimalOf(digits, i) ==
    /\ digits # <<>>
    /\ \A k \in 1..Len(digits) : IsDigit(digits[k])
    /\ digits[1] # "0"
    /\ DecimalValue(digits) = i

C6_ExpandLengthAndNames ==
    (expCall.called /\ 0 <= expCall.start /\ expCall.start <= expCall.end) =>
        /\ ~expCall.raised
        /\ Len(expCall.ret) = expCall.end - expCall.start + 1
        /\ \A k \in 1..Len(expCall.ret) :
               LET i == expCall.start + k - 1
                   name == expCall.ret[k]
                   n == Len(expCall.base)
               IN  IF i = 0 THEN name = expCall.base
                   ELSE /\ Len(name) > n
                        /\ SubSeq(name, 1, n) = expCall.base
                        /\ IsDecimalOf(SubSeq(name, n + 1, Len(name)), i)

\* a call from offset 0 to a two-digit offset
C6_Witness ==
    /\ expCall.called
    /\ expCall.start = 0
    /\ expCall.end >= 10
    /\ Len(expCall.ret) = expCall.end + 1

-----------------------------------------------------------------------------
(* C7, as claimed: for end < start, expand(base, start, end) fails with an
   invalid-range error instead of returning a sequence of identities, and a
   Connect with end < start issues no authentication call. *)
RangeMessage == "End number must be greater than or equal to start number."

C7_Step ==
    /\ (expCall'.called /\ expCall'.end < expCall'.start) =>
           /\ ~expCall'.raised
           /\ expCall'.ret = <<>>
    /\ (connectRun'.clicked /\ connectRun'.end < connectRun'.start) =>
           /\ connectRun'.error # ""
           /\ authLog' = <<>>
           /\ pc' = "stopped"
           /\ tokens' = tokens

=============================================================================
